---- MODULE Spec2Model ----
(***************************************************************************)
(* Agent-based epidemic model with three locations (src/model.cpp).        *)
(*                                                                         *)
(* The three state handlers update_susceptible, update_infected and        *)
(* update_infected_hospitalized are translated from src/model.cpp.  The    *)
(* epiworld library they call (Model::run, Model::runif, roulette,         *)
(* Agent::set_virus / change_state / rm_virus) is not part of src/ and is  *)
(* modelled from spec.md.  spec.md does not say whether a transition       *)
(* requested by a handler takes effect at once or when the step ends, so   *)
(* the model admits both: `deferred` is fixed at Init and never changes.   *)
(*                                                                         *)
(* Uniform draws in [0,1) are fixed-point numbers k/Scale.                 *)
(***************************************************************************)
EXTENDS Integers, Sequences, FiniteSets, TLC

\* ------------------------------------------------------------------ bounds
NAgents == 3      \* population size (1000 in the driver)
NDays == 2        \* number of steps of a run (100 in the driver)
NDraws == 4       \* number of distinct values a uniform draw can take

\* --------------------------------------------------------------- constants
Scale == 1000     \* a draw u stands for u / Scale

Susceptible == 0
Infected == 1
Infected_Hospitalized == 2

Community == 0
Hospital == 1
Home == 2

NoVirus == 0      \* nullptr
MRSA == 1         \* the one pathogen of the driver

NoChange == 0 - 1 \* roulette: no interval selected

Agents == 0 .. (NAgents - 1)
States == {Susceptible, Infected, Infected_Hospitalized}
Locations == {Community, Hospital, Home}

\* the values of m->runif(): NDraws points of [0, Scale)
Draws == {(k * Scale) \div NDraws : k \in 0 .. (NDraws - 1)}

\* the next n values of the random stream
Tapes(n) == [1 .. n -> Draws]

VARIABLES
    state,          \* state[a]: epidemic state of agent a
    virus,          \* virus[a]: pathogen attached to a (NoVirus = nullptr)
    locations,      \* locations[a]: the shared location vector
    infection_log,  \* sequence of <<susceptible_id, infector_id, location>>
    neighbors,      \* neighbors[a]: neighbor list of a, in list order
    par,            \* the named parameters
    deferred,       \* TRUE: requested transitions are applied at end of step
    events,         \* transitions requested in this step and not yet applied
    cursor,         \* next agent to be handled in the current step
    today,          \* number of completed steps
    handler,        \* the handler invoked latest ("none" before the first)
    draws           \* the draws consumed by the latest handler invocation

vars == <<state, virus, locations, infection_log, neighbors, par, deferred,
          events, cursor, today, handler, draws>>

\* ------------------------------------------------- inputs of a run (Init)
RECURSIVE Ascending(_)
Ascending(S) ==
    IF S = {} THEN <<>>
    ELSE LET m == CHOOSE x \in S : \A y \in S : x <= y
         IN <<m>> \o Ascending(S \ {m})

\* contact graphs: undirected, each neighbor list in ascending order
ChainGraph == [a \in Agents |-> Ascending({a - 1, a + 1} \cap Agents)]
\* agents 0 and 1 connected, every other agent without neighbors
PairGraph == [a \in Agents |-> IF a = 0 THEN <<1>> ELSE IF a = 1 THEN <<0>> ELSE <<>>]
Graphs == {ChainGraph, PairGraph}

\* "Prob hospitalization", "Prob recovery", "Discharge infected"
DriverParams == [hosp |-> Scale \div 10, rec |-> 0, dis |-> Scale \div 10]
Params ==
    {DriverParams}
    \cup {[hosp |-> 0, rec |-> 0, dis |-> Scale \div 10]}
    \cup {[hosp |-> (3 * Scale) \div 10, rec |-> (3 * Scale) \div 10, dis |-> Scale]}
    \cup {[hosp |-> Scale \div 10, rec |-> Scale, dis |-> Scale \div 10]}
    \cup {[hosp |-> Scale \div 10, rec |-> Scale, dis |-> Scale]}

\* ----------------------------------- the library, as spec.md describes it
\* roulette over probs with the draw u: the index (from 0) of the half-open
\* interval [sum_{j<i} p_j, sum_{j<=i} p_j) that holds u, else NoChange
RECURSIVE RouletteFrom(_, _, _, _)
RouletteFrom(probs, i, cum, u) ==
    IF i > Len(probs) THEN NoChange
    ELSE IF u < cum + probs[i] THEN i - 1
    ELSE RouletteFrom(probs, i + 1, cum + probs[i], u)

roulette(probs, u) == RouletteFrom(probs, 1, 0, u)

\* the effect of one requested transition on <<state, virus>> of the agents
ApplyEvent(w, e) ==
    [state |-> [w.state EXCEPT ![e.agent] = e.new_state],
     virus |-> [w.virus EXCEPT ![e.agent] =
                   IF e.kind = "set_virus" THEN e.virus
                   ELSE IF e.kind = "rm_virus" THEN NoVirus
                   ELSE @]]

RECURSIVE ApplyEvents(_, _)
ApplyEvents(w, evs) ==
    IF evs = <<>> THEN w
    ELSE ApplyEvents(ApplyEvent(w, Head(evs)), Tail(evs))

\* a transition requested by a handler: applied now, or queued for the end
\* of the step
Request(e) ==
    IF deferred
    THEN /\ events' = Append(events, e)
         /\ UNCHANGED <<state, virus>>
    ELSE /\ state' = ApplyEvent([state |-> state, virus |-> virus], e).state
         /\ virus' = ApplyEvent([state |-> state, virus |-> virus], e).virus
         /\ UNCHANGED events

set_virus(a, v, s) ==
    Request([agent |-> a, kind |-> "set_virus", virus |-> v, new_state |-> s])

change_state(a, s) ==
    Request([agent |-> a, kind |-> "change_state", virus |-> NoVirus, new_state |-> s])

rm_virus(a, s) ==
    Request([agent |-> a, kind |-> "rm_virus", virus |-> NoVirus, new_state |-> s])

\* ------------------------------------------------------------- handlers
InfectChance == (3 * Scale) \div 10
HalfChance == Scale \div 2

\* ScanNeighbors without the same-location test
RECURSIVE ScanNeighbors_AnyLocation(_, _, _, _, _)
ScanNeighbors_AnyLocation(a, i, k, tape, locs) ==
    IF i > Len(neighbors[a])
    THEN [virus |-> NoVirus, infector_id |-> 0, used |-> k - 1]
    ELSE LET neighbor == neighbors[a][i] IN
         IF state[neighbor] = Infected
         THEN IF tape[k] < InfectChance
              THEN [virus |-> virus[neighbor], infector_id |-> neighbor, used |-> k]
              ELSE ScanNeighbors_AnyLocation(a, i + 1, k + 1, tape, locs)
         ELSE ScanNeighbors_AnyLocation(a, i + 1, k, tape, locs)

\* ScanNeighbors comparing with the location the agent had before its own
\* reassignment
RECURSIVE ScanNeighbors_StaleLocation(_, _, _, _, _)
ScanNeighbors_StaleLocation(a, i, k, tape, locs) ==
    IF i > Len(neighbors[a])
    THEN [virus |-> NoVirus, infector_id |-> 0, used |-> k - 1]
    ELSE LET neighbor == neighbors[a][i] IN
         IF state[neighbor] = Infected /\ locs[neighbor] = locations[a]
         THEN IF tape[k] < InfectChance
              THEN [virus |-> virus[neighbor], infector_id |-> neighbor, used |-> k]
              ELSE ScanNeighbors_StaleLocation(a, i + 1, k + 1, tape, locs)
         ELSE ScanNeighbors_StaleLocation(a, i + 1, k, tape, locs)

\* ScanNeighbors without the break: the scan goes on after a success and the
\* last success wins
RECURSIVE ScanNeighbors_NoBreak(_, _, _, _, _)
ScanNeighbors_NoBreak(a, i, k, tape, locs) ==
    IF i > Len(neighbors[a])
    THEN [virus |-> NoVirus, infector_id |-> 0, used |-> k - 1]
    ELSE LET neighbor == neighbors[a][i] IN
         IF state[neighbor] = Infected /\ locs[neighbor] = locs[a]
         THEN LET rest == ScanNeighbors_NoBreak(a, i + 1, k + 1, tape, locs) IN
              IF rest.virus = NoVirus /\ tape[k] < InfectChance
              THEN [virus |-> virus[neighbor], infector_id |-> neighbor,
                    used |-> rest.used]
              ELSE rest
         ELSE ScanNeighbors_NoBreak(a, i + 1, k, tape, locs)

\* ScanNeighbors crediting the head of the neighbor list, whoever passed the
\* virus
RECURSIVE ScanNeighbors_CreditFirst(_, _, _, _, _)
ScanNeighbors_CreditFirst(a, i, k, tape, locs) ==
    IF i > Len(neighbors[a])
    THEN [virus |-> NoVirus, infector_id |-> 0, used |-> k - 1]
    ELSE LET neighbor == neighbors[a][i] IN
         IF state[neighbor] = Infected /\ locs[neighbor] = locs[a]
         THEN IF tape[k] < InfectChance
              THEN [virus |-> virus[neighbor], infector_id |-> neighbors[a][1],
                    used |-> k]
              ELSE ScanNeighbors_CreditFirst(a, i + 1, k + 1, tape, locs)
         ELSE ScanNeighbors_CreditFirst(a, i + 1, k, tape, locs)

\* ScanNeighbors taking every neighbor that is not Susceptible for a source,
\* the hospitalized ones included
RECURSIVE ScanNeighbors_HospitalizedTransmit(_, _, _, _, _)
ScanNeighbors_HospitalizedTransmit(a, i, k, tape, locs) ==
    IF i > Len(neighbors[a])
    THEN [virus |-> NoVirus, infector_id |-> 0, used |-> k - 1]
    ELSE LET neighbor == neighbors[a][i] IN
         IF state[neighbor] # Susceptible /\ locs[neighbor] = locs[a]
         THEN IF tape[k] < InfectChance
              THEN [virus |-> virus[neighbor], infector_id |-> neighbor, used |-> k]
              ELSE ScanNeighbors_HospitalizedTransmit(a, i + 1, k + 1, tape, locs)
         ELSE ScanNeighbors_HospitalizedTransmit(a, i + 1, k, tape, locs)

\* the neighbor loop of update_susceptible: neighbor number i of a is next,
\* tape[k] is the next draw; locs is the location vector after a's own
\* reassignment.  Returns the virus passed (NoVirus if none), the infector
\* and the number of draws consumed so far.
RECURSIVE ScanNeighbors(_, _, _, _, _)
ScanNeighbors(a, i, k, tape, locs) ==
    IF i > Len(neighbors[a])
    THEN [virus |-> NoVirus, infector_id |-> 0, used |-> k - 1]
    ELSE LET neighbor == neighbors[a][i] IN
         IF state[neighbor] = Infected /\ locs[neighbor] = locs[a]
         THEN IF tape[k] < InfectChance
              THEN [virus |-> virus[neighbor], infector_id |-> neighbor, used |-> k]
              ELSE ScanNeighbors(a, i + 1, k + 1, tape, locs)
         ELSE ScanNeighbors(a, i + 1, k, tape, locs)

\* update_susceptible logging every invocation, infection or not
update_susceptible_LogAlways(a, tape) ==
    IF state[a] # Susceptible
    THEN /\ draws' = <<>>
         /\ UNCHANGED <<state, virus, locations, infection_log, events>>
    ELSE LET new_location == (tape[1] * 3) \div Scale
             locs == [locations EXCEPT ![a] = new_location]
             scan == ScanNeighbors(a, 1, 2, tape, locs)
         IN /\ locations' = locs
            /\ infection_log' =
                  Append(infection_log, <<a, scan.infector_id, new_location>>)
            /\ IF scan.virus # NoVirus
               THEN /\ IF par.hosp > tape[scan.used + 1]
                       THEN set_virus(a, scan.virus, Infected_Hospitalized)
                       ELSE set_virus(a, scan.virus, Infected)
                    /\ draws' = SubSeq(tape, 1, scan.used + 1)
               ELSE /\ draws' = SubSeq(tape, 1, scan.used)
                    /\ UNCHANGED <<state, virus, events>>

\* update_susceptible scanning against the location vector as it was before
\* the agent's own reassignment
update_susceptible_ScanBeforeMove(a, tape) ==
    IF state[a] # Susceptible
    THEN /\ draws' = <<>>
         /\ UNCHANGED <<state, virus, locations, infection_log, events>>
    ELSE LET new_location == (tape[1] * 3) \div Scale
             locs == [locations EXCEPT ![a] = new_location]
             scan == ScanNeighbors(a, 1, 2, tape, locations)
         IN /\ locations' = locs
            /\ IF scan.virus # NoVirus
               THEN /\ infection_log' =
                          Append(infection_log, <<a, scan.infector_id, new_location>>)
                    /\ IF par.hosp > tape[scan.used + 1]
                       THEN set_virus(a, scan.virus, Infected_Hospitalized)
                       ELSE set_virus(a, scan.virus, Infected)
                    /\ draws' = SubSeq(tape, 1, scan.used + 1)
               ELSE /\ draws' = SubSeq(tape, 1, scan.used)
                    /\ UNCHANGED <<state, virus, infection_log, events>>

\* update_susceptible without the entry check of the agent's state
update_susceptible_NoGuard(a, tape) ==
    LET new_location == (tape[1] * 3) \div Scale
        locs == [locations EXCEPT ![a] = new_location]
        scan == ScanNeighbors(a, 1, 2, tape, locs)
    IN /\ locations' = locs
       /\ IF scan.virus # NoVirus
          THEN /\ infection_log' =
                     Append(infection_log, <<a, scan.infector_id, new_location>>)
               /\ IF par.hosp > tape[scan.used + 1]
                  THEN set_virus(a, scan.virus, Infected_Hospitalized)
                  ELSE set_virus(a, scan.virus, Infected)
               /\ draws' = SubSeq(tape, 1, scan.used + 1)
          ELSE /\ draws' = SubSeq(tape, 1, scan.used)
               /\ UNCHANGED <<state, virus, infection_log, events>>

update_susceptible(a, tape) ==
    IF state[a] # Susceptible
    THEN /\ draws' = <<>>
         /\ UNCHANGED <<state, virus, locations, infection_log, events>>
    ELSE LET new_location == (tape[1] * 3) \div Scale
             locs == [locations EXCEPT ![a] = new_location]
             scan == ScanNeighbors(a, 1, 2, tape, locs)
         IN /\ locations' = locs
            /\ IF scan.virus # NoVirus
               THEN /\ infection_log' =
                          Append(infection_log, <<a, scan.infector_id, new_location>>)
                    /\ IF par.hosp > tape[scan.used + 1]
                       THEN set_virus(a, scan.virus, Infected_Hospitalized)
                       ELSE set_virus(a, scan.virus, Infected)
                    /\ draws' = SubSeq(tape, 1, scan.used + 1)
               ELSE /\ draws' = SubSeq(tape, 1, scan.used)
                    /\ UNCHANGED <<state, virus, infection_log, events>>

\* update_infected recovering by change_state: the pathogen stays attached
update_infected_KeepVirus(a, tape) ==
    LET new_location == IF tape[1] < HalfChance THEN Community ELSE Home
        probs == <<par.hosp, par.rec>>
        res == roulette(probs, tape[2])
    IN /\ locations' = [locations EXCEPT ![a] = new_location]
       /\ draws' = SubSeq(tape, 1, 2)
       /\ UNCHANGED infection_log
       /\ IF res = 0 THEN change_state(a, Infected_Hospitalized)
          ELSE IF res = 1 THEN change_state(a, Susceptible)
          ELSE UNCHANGED <<state, virus, events>>

\* update_infected recovering on every roulette result other than 0
update_infected_ElseRecover(a, tape) ==
    LET new_location == IF tape[1] < HalfChance THEN Community ELSE Home
        probs == <<par.hosp, par.rec>>
        res == roulette(probs, tape[2])
    IN /\ locations' = [locations EXCEPT ![a] = new_location]
       /\ draws' = SubSeq(tape, 1, 2)
       /\ UNCHANGED infection_log
       /\ IF res = 0 THEN change_state(a, Infected_Hospitalized)
          ELSE rm_virus(a, Susceptible)

\* update_infected passing the two probabilities in the other order
update_infected_SwappedProbs(a, tape) ==
    LET new_location == IF tape[1] < HalfChance THEN Community ELSE Home
        probs == <<par.rec, par.hosp>>
        res == roulette(probs, tape[2])
    IN /\ locations' = [locations EXCEPT ![a] = new_location]
       /\ draws' = SubSeq(tape, 1, 2)
       /\ UNCHANGED infection_log
       /\ IF res = 0 THEN change_state(a, Infected_Hospitalized)
          ELSE IF res = 1 THEN rm_virus(a, Susceptible)
          ELSE UNCHANGED <<state, virus, events>>

\* update_infected reassigning the location only when the roulette changes
\* nothing
update_infected_MoveIfUnchanged(a, tape) ==
    LET new_location == IF tape[1] < HalfChance THEN Community ELSE Home
        probs == <<par.hosp, par.rec>>
        res == roulette(probs, tape[2])
    IN /\ locations' = IF res = NoChange
                       THEN [locations EXCEPT ![a] = new_location]
                       ELSE locations
       /\ draws' = SubSeq(tape, 1, 2)
       /\ UNCHANGED infection_log
       /\ IF res = 0 THEN change_state(a, Infected_Hospitalized)
          ELSE IF res = 1 THEN rm_virus(a, Susceptible)
          ELSE UNCHANGED <<state, virus, events>>

\* update_infected writing the location entry next to the agent's own
update_infected_WrongEntry(a, tape) ==
    LET new_location == IF tape[1] < HalfChance THEN Community ELSE Home
        probs == <<par.hosp, par.rec>>
        res == roulette(probs, tape[2])
    IN /\ locations' = [locations EXCEPT ![(a + 1) % NAgents] = new_location]
       /\ draws' = SubSeq(tape, 1, 2)
       /\ UNCHANGED infection_log
       /\ IF res = 0 THEN change_state(a, Infected_Hospitalized)
          ELSE IF res = 1 THEN rm_virus(a, Susceptible)
          ELSE UNCHANGED <<state, virus, events>>

update_infected(a, tape) ==
    LET new_location == IF tape[1] < HalfChance THEN Community ELSE Home
        probs == <<par.hosp, par.rec>>
        res == roulette(probs, tape[2])
    IN /\ locations' = [locations EXCEPT ![a] = new_location]
       /\ draws' = SubSeq(tape, 1, 2)
       /\ UNCHANGED infection_log
       /\ IF res = 0 THEN change_state(a, Infected_Hospitalized)
          ELSE IF res = 1 THEN rm_virus(a, Susceptible)
          ELSE UNCHANGED <<state, virus, events>>

\* update_infected_hospitalized checking discharge before recovery
update_infected_hospitalized_DischargeFirst(a, tape) ==
    /\ locations' = [locations EXCEPT ![a] = Hospital]
    /\ UNCHANGED infection_log
    /\ IF par.dis > tape[1]
       THEN /\ change_state(a, Infected)
            /\ draws' = SubSeq(tape, 1, 1)
       ELSE /\ draws' = SubSeq(tape, 1, 2)
            /\ IF par.rec > tape[2]
               THEN rm_virus(a, Susceptible)
               ELSE UNCHANGED <<state, virus, events>>

\* update_infected_hospitalized drawing for recovery and for discharge before
\* it tests either
update_infected_hospitalized_EagerDraws(a, tape) ==
    /\ locations' = [locations EXCEPT ![a] = Hospital]
    /\ UNCHANGED infection_log
    /\ draws' = SubSeq(tape, 1, 2)
    /\ IF par.rec > tape[1]
       THEN rm_virus(a, Susceptible)
       ELSE IF par.dis > tape[2]
            THEN change_state(a, Infected)
            ELSE UNCHANGED <<state, virus, events>>

\* update_infected_hospitalized without the write of Hospital
update_infected_hospitalized_NoMove(a, tape) ==
    /\ UNCHANGED <<locations, infection_log>>
    /\ IF par.rec > tape[1]
       THEN /\ rm_virus(a, Susceptible)
            /\ draws' = SubSeq(tape, 1, 1)
       ELSE /\ draws' = SubSeq(tape, 1, 2)
            /\ IF par.dis > tape[2]
               THEN change_state(a, Infected)
               ELSE UNCHANGED <<state, virus, events>>

\* update_infected_hospitalized recovering also when the draw equals
\* "Prob recovery"
update_infected_hospitalized_RecoverOnTie(a, tape) ==
    /\ locations' = [locations EXCEPT ![a] = Hospital]
    /\ UNCHANGED infection_log
    /\ IF par.rec >= tape[1]
       THEN /\ rm_virus(a, Susceptible)
            /\ draws' = SubSeq(tape, 1, 1)
       ELSE /\ draws' = SubSeq(tape, 1, 2)
            /\ IF par.dis > tape[2]
               THEN change_state(a, Infected)
               ELSE UNCHANGED <<state, virus, events>>

update_infected_hospitalized(a, tape) ==
    /\ locations' = [locations EXCEPT ![a] = Hospital]
    /\ UNCHANGED infection_log
    /\ IF par.rec > tape[1]
       THEN /\ rm_virus(a, Susceptible)
            /\ draws' = SubSeq(tape, 1, 1)
       ELSE /\ draws' = SubSeq(tape, 1, 2)
            /\ IF par.dis > tape[2]
               THEN change_state(a, Infected)
               ELSE UNCHANGED <<state, virus, events>>

\* --------------------------------------------------------------- the run
Init ==
    /\ state \in {s \in [Agents -> {Susceptible, Infected}] :
                     \E a \in Agents : s[a] = Infected}
    /\ virus = [a \in Agents |-> IF state[a] = Infected THEN MRSA ELSE NoVirus]
    /\ locations \in [Agents -> Locations]
    /\ infection_log = <<>>
    /\ neighbors \in Graphs
    /\ par \in Params
    /\ deferred \in BOOLEAN
    /\ events = <<>>
    /\ cursor = 0
    /\ today = 0
    /\ handler = "none"
    /\ draws = <<>>

Running == today < NDays /\ cursor < NAgents

\* the draws supplied to update_susceptible for agent a, never fewer than it
\* consumes: the location draw, one infection-chance draw per neighbor that
\* carries the pathogen, the hospitalization draw
SusceptibleDraws(a) ==
    2 + Cardinality({i \in 1 .. Len(neighbors[a]) : state[neighbors[a][i]] # Susceptible})

\* the scheduler calls the handler registered for the agent's current state
HandleSusceptible ==
    /\ Running
    /\ state[cursor] = Susceptible
    /\ \E tape \in Tapes(SusceptibleDraws(cursor)) : update_susceptible(cursor, tape)
    /\ handler' = "update_susceptible"
    /\ cursor' = cursor + 1
    /\ UNCHANGED <<neighbors, par, deferred, today>>

HandleInfected ==
    /\ Running
    /\ state[cursor] = Infected
    /\ \E tape \in Tapes(2) : update_infected(cursor, tape)
    /\ handler' = "update_infected"
    /\ cursor' = cursor + 1
    /\ UNCHANGED <<neighbors, par, deferred, today>>

HandleInfectedHospitalized ==
    /\ Running
    /\ state[cursor] = Infected_Hospitalized
    /\ \E tape \in Tapes(2) : update_infected_hospitalized(cursor, tape)
    /\ handler' = "update_infected_hospitalized"
    /\ cursor' = cursor + 1
    /\ UNCHANGED <<neighbors, par, deferred, today>>

\* every agent was handled: the queued transitions take effect, next step
EndStep ==
    /\ today < NDays
    /\ cursor = NAgents
    /\ state' = ApplyEvents([state |-> state, virus |-> virus], events).state
    /\ virus' = ApplyEvents([state |-> state, virus |-> virus], events).virus
    /\ events' = <<>>
    /\ cursor' = 0
    /\ today' = today + 1
    /\ UNCHANGED <<locations, infection_log, neighbors, par, deferred, handler, draws>>

Next ==
    \/ HandleSusceptible
    \/ HandleInfected
    \/ HandleInfectedHospitalized
    \/ EndStep

Spec == Init /\ [][Next]_vars

\* the two-agent scenario: agents 0 and 1 connected, agent 0 seeded Infected
\* at Community, agent 1 Susceptible (further agents have no neighbors)
InitPair ==
    /\ Init
    /\ neighbors = PairGraph
    /\ state[0] = Infected
    /\ locations[0] = Community
    /\ state[1] = Susceptible

SpecPair == InitPair /\ [][Next]_vars

\* the Susceptible callback scheduled against an agent that is not (or no
\* longer) Susceptible
CallSusceptibleStray ==
    /\ Running
    /\ state[cursor] # Susceptible
    /\ \E tape \in Tapes(SusceptibleDraws(cursor)) : update_susceptible(cursor, tape)
    /\ handler' = "update_susceptible"
    /\ cursor' = cursor + 1
    /\ UNCHANGED <<neighbors, par, deferred, today>>

NextStray ==
    \/ Next
    \/ CallSusceptibleStray

\* the two-agent scenario with stray calls of the Susceptible callback
SpecStray == InitPair /\ [][NextStray]_vars

TypeOK ==
    /\ state \in [Agents -> States]
    /\ virus \in [Agents -> {NoVirus, MRSA}]
    /\ locations \in [Agents -> Locations]
    /\ cursor \in 0 .. NAgents
    /\ today \in 0 .. NDays

\* ------------------------------------------------ vocabulary of the claims
\* state and virus of the agents once the queued transitions have taken
\* effect (the agents' state and virus themselves when nothing is queued)
Settled == ApplyEvents([state |-> state, virus |-> virus], events)

\* a step of the model in which handler h has just been invoked on cursor
Invoked(h) == cursor' = cursor + 1 /\ handler' = h

\* the agent the latest handler invocation acted on
Acted == IF cursor = 0 THEN NAgents - 1 ELSE cursor - 1

\* a step has completed: every agent was handled, transitions took effect
StepCompleted == today > 0 /\ cursor = 0

IsPrefix(s, t) == Len(s) <= Len(t) /\ SubSeq(t, 1, Len(s)) = s

\* C1: after any completed step every agent's location is Community,
\* Hospital or Home, and every Infected-Hospitalized agent is at Hospital.
C1_LocationInvariant ==
    StepCompleted =>
        \A a \in Agents :
            /\ locations[a] \in Locations
            /\ state[a] = Infected_Hospitalized => locations[a] = Hospital

\* C2: when update_susceptible runs on an agent none of whose neighbors is
\* both Infected and at the agent's just-assigned location, it appends
\* nothing to the infection log, leaves the agent Susceptible and attaches
\* no pathogen (now or when the step ends), whatever the draws.
C2_NoSourceNoInfection ==
    [][(/\ Invoked("update_susceptible")
        /\ ~ \E i \in 1 .. Len(neighbors[cursor]) :
                /\ state[neighbors[cursor][i]] = Infected
                /\ locations'[neighbors[cursor][i]] = locations'[cursor])
       => /\ infection_log' = infection_log
          /\ state'[cursor] = Susceptible
          /\ virus'[cursor] = NoVirus
          /\ Settled'.state[cursor] = Susceptible
          /\ Settled'.virus[cursor] = NoVirus]_vars

\* an agent with an Infected neighbor was handled by update_susceptible and
\* consumed its location draw only: no Infected neighbor shared its location
C2_Witness ==
    /\ handler = "update_susceptible"
    /\ cursor > 0
    /\ Len(draws) = 1
    /\ \E i \in 1 .. Len(neighbors[Acted]) :
          /\ state[neighbors[Acted][i]] = Infected
          /\ locations[neighbors[Acted][i]] # locations[Acted]
    /\ state[Acted] = Susceptible
    /\ infection_log = <<>>

\* C3: an agent has a pathogen attached exactly when it is Infected or
\* Infected-Hospitalized (so none on a Susceptible agent, one on every agent
\* that entered Infected-Hospitalized, none right after a recovery).
C3_PathogenIffInfected ==
    \A a \in Agents :
        /\ (virus[a] # NoVirus) <=> (state[a] \in {Infected, Infected_Hospitalized})
        /\ (Settled.virus[a] # NoVirus)
               <=> (Settled.state[a] \in {Infected, Infected_Hospitalized})

\* one agent is Infected-Hospitalized with its pathogen, another was
\* infected (it is in the log) and has recovered to Susceptible
C3_Witness ==
    \E a, b \in Agents :
        /\ state[a] = Infected_Hospitalized /\ virus[a] = MRSA
        /\ state[b] = Susceptible /\ virus[b] = NoVirus
        /\ Settled.state[b] = Susceptible
        /\ \E i \in 1 .. Len(infection_log) : infection_log[i][1] = b
\* C5: with "Prob recovery" = 1.0 every invocation of
\* update_infected_hospitalized makes the agent Susceptible with its pathogen
\* detached, for every draw and every "Discharge infected".
C5_CertainRecovery ==
    [][(Invoked("update_infected_hospitalized") /\ par.rec = Scale)
       => /\ Settled'.state[cursor] = Susceptible
          /\ Settled'.virus[cursor] = NoVirus
          /\ ~deferred => (state'[cursor] = Susceptible /\ virus'[cursor] = NoVirus)]_vars

\* a hospitalized agent was handled with "Prob recovery" = 1.0 and
\* "Discharge infected" = 1.0, and it recovered
C5_Witness ==
    /\ handler = "update_infected_hospitalized"
    /\ cursor > 0
    /\ par.rec = Scale
    /\ par.dis = Scale
    /\ Settled.state[Acted] = Susceptible
    /\ Settled.virus[Acted] = NoVirus
    /\ locations[Acted] = Hospital

\* C6: with "Prob hospitalization" = 0.0 and "Prob recovery" = 0.0 every
\* invocation of update_infected changes nothing but the agent's location:
\* the agent stays Infected with its pathogen, for every draw.
C6_NoChangeAtZero ==
    [][(Invoked("update_infected") /\ par.hosp = 0 /\ par.rec = 0)
       => /\ state' = state
          /\ virus' = virus
          /\ events' = events
          /\ infection_log' = infection_log
          /\ state'[cursor] = Infected
          /\ virus'[cursor] # NoVirus
          /\ \A a \in Agents \ {cursor} : locations'[a] = locations[a]]_vars

\* an Infected agent was handled under the all-zero probabilities
C6_Witness ==
    /\ handler = "update_infected"
    /\ cursor > 0
    /\ par.hosp = 0
    /\ par.rec = 0
    /\ state[Acted] = Infected
    /\ virus[Acted] = MRSA
    /\ Len(draws) = 2

\* C7 as claimed: agent 0 seeded Infected at Community, agent 1 Susceptible;
\* if agent 1's location draw selects Community and every infection-chance
\* draw it makes succeeds, agent 1 becomes Infected or Infected-Hospitalized
\* in the first step and the log is exactly <<1, 0, Community>>.
C7_ScenarioAsClaimed ==
    (/\ today = 0
     /\ cursor = 2
     /\ handler = "update_susceptible"
     /\ locations[1] = Community
     /\ Len(draws) >= 2 => draws[2] < InfectChance)
    => /\ Settled.state[1] \in {Infected, Infected_Hospitalized}
       /\ infection_log = << <<1, 0, Community>> >>

\* C7 amended: the same, provided agent 0 is still Infected and at Community
\* when agent 1's handler scans (agent 0's own handler ran first and
\* reassigned agent 0's location).
C7_ScenarioSourceStays ==
    (/\ today = 0
     /\ cursor = 2
     /\ handler = "update_susceptible"
     /\ state[0] = Infected
     /\ locations[0] = Community
     /\ locations[1] = Community
     /\ Len(draws) >= 2 => draws[2] < InfectChance)
    => /\ Settled.state[1] \in {Infected, Infected_Hospitalized}
       /\ Settled.virus[1] = MRSA
       /\ infection_log = << <<1, 0, Community>> >>
       /\ Len(draws) = 3

\* agent 1 was infected by agent 0 at Community in the first step
C7_Witness ==
    /\ today = 0
    /\ cursor = 2
    /\ handler = "update_susceptible"
    /\ state[0] = Infected
    /\ locations[0] = Community
    /\ locations[1] = Community
    /\ draws[2] < InfectChance
    /\ Settled.state[1] = Infected
    /\ infection_log = << <<1, 0, Community>> >>

\* C8: the infection log only grows at its end; update_susceptible appends
\* one entry <<agent, infector, just-assigned location>> exactly when the
\* agent leaves Susceptible; no other step changes the log.
C8_LogAppendOnly ==
    [][/\ IsPrefix(infection_log, infection_log')
       /\ Invoked("update_susceptible") =>
             IF Settled'.state[cursor] # Susceptible
             THEN \E i \in Agents :
                     infection_log' =
                         Append(infection_log, <<cursor, i, locations'[cursor]>>)
             ELSE infection_log' = infection_log
       /\ ~ Invoked("update_susceptible") => infection_log' = infection_log]_vars

\* two infections are logged and another handler has run since
C8_Witness ==
    /\ Len(infection_log) = 2
    /\ handler = "update_infected"
    /\ infection_log[1][1] # infection_log[2][1]

\* C9: update_infected hospitalizes iff its roulette draw u is below
\* p_hospitalization, recovers iff p_hospitalization <= u <
\* p_hospitalization + p_recovery, and changes nothing otherwise; with
\* [0.1, 0.0] it never recovers.
C9_RouletteIntervals ==
    [][Invoked("update_infected") =>
          LET u == draws'[2]
              after == Settled'.state[cursor]
          IN /\ (u < par.hosp) <=> (after = Infected_Hospitalized)
             /\ (par.hosp <= u /\ u < par.hosp + par.rec) <=> (after = Susceptible)
             /\ (par.hosp + par.rec <= u) <=> (after = Infected)
             /\ (par.hosp = Scale \div 10 /\ par.rec = 0) => after # Susceptible
             /\ roulette(<<Scale \div 10, 0>>, u) # 1]_vars

\* an Infected agent recovered on a draw in the second interval
C9_Witness ==
    /\ handler = "update_infected"
    /\ cursor > 0
    /\ par.hosp > 0
    /\ par.hosp + par.rec < Scale
    /\ par.hosp <= draws[2]
    /\ draws[2] < par.hosp + par.rec
    /\ Settled.state[Acted] = Susceptible

\* C10: when "Prob hospitalization" + "Prob recovery" exceeds 1 the run ends
\* at setup: no step is executed and no handler is ever invoked.
C10_MalformedFailsFast ==
    (par.hosp + par.rec > Scale) => (handler = "none" /\ today = 0 /\ cursor = 0)

\* the neighbors of a, in list order, that are Infected and whose entry of
\* the shared location vector is loc
EligibleAt(a, loc) ==
    SelectSeq(neighbors[a], LAMBDA j : state[j] = Infected /\ locations[j] = loc)

LastEntry(log) == log[Len(log)]

\* C11: locations are read in place, without a per-step snapshot: a step
\* writes no entry of the location vector but the acting agent's, so an
\* entry holds this step's value for agents already handled and the previous
\* value for the others; and update_susceptible decides on exactly those
\* entries: it draws an infection chance iff some Infected neighbor's current
\* entry equals its own just-assigned location, and credits such a neighbor.
C11_ReadsLocationsInPlace ==
    [][/\ \A j \in Agents :
              locations'[j] # locations[j] => (j = cursor /\ cursor' = cursor + 1)
       /\ (Invoked("update_susceptible") /\ state[cursor] = Susceptible) =>
             LET sources == EligibleAt(cursor, locations'[cursor]) IN
             /\ (Len(draws') >= 2) <=> (sources # <<>>)
             /\ infection_log' # infection_log =>
                   \E m \in 1 .. Len(sources) :
                       LastEntry(infection_log')[2] = sources[m]]_vars

\* in the first step agent i was infected by a neighbor j > i at j's initial
\* location, which j's own handler has since replaced
C11_Witness ==
    /\ today = 0
    /\ Len(infection_log) >= 1
    /\ infection_log[1][1] < infection_log[1][2]
    /\ cursor > infection_log[1][2]
    /\ locations[infection_log[1][2]] # infection_log[1][3]

\* C12: first-success scan: update_susceptible consumes one infection-chance
\* draw per Infected same-location neighbor, in list order, up to and
\* including the first draw below 0.3; that neighbor is the infector logged
\* and no later neighbor costs a draw; with no success nobody is infected.
C12_FirstSuccessScan ==
    [][(Invoked("update_susceptible") /\ state[cursor] = Susceptible) =>
          LET sources == EligibleAt(cursor, locations'[cursor]) IN
          IF infection_log' # infection_log
          THEN LET m == Len(draws') - 2 IN
               /\ m \in 1 .. Len(sources)
               /\ LastEntry(infection_log')[2] = sources[m]
               /\ draws'[1 + m] < InfectChance
               /\ \A k \in 1 .. (m - 1) : draws'[1 + k] >= InfectChance
               /\ Settled'.state[cursor] # Susceptible
          ELSE /\ Len(draws') = 1 + Len(sources)
               /\ \A k \in 1 .. Len(sources) : draws'[1 + k] >= InfectChance
               /\ Settled'.state[cursor] = Susceptible]_vars

\* an agent with two Infected neighbors at its location was infected by the
\* first on the first infection-chance draw; the second cost no draw
C12_Witness ==
    /\ handler = "update_susceptible"
    /\ cursor > 0
    /\ Len(neighbors[Acted]) = 2
    /\ \A i \in 1 .. 2 :
          /\ state[neighbors[Acted][i]] = Infected
          /\ locations[neighbors[Acted][i]] = locations[Acted]
    /\ Len(draws) = 3
    /\ Len(infection_log) >= 1
    /\ LastEntry(infection_log) =
          <<Acted, neighbors[Acted][1], locations[Acted]>>

\* C13: update_susceptible invoked on an agent that is not Susceptible
\* changes nothing: no location, state, pathogen, queued transition or log
\* entry, and it consumes no draw.
C13_NoOpWhenNotSusceptible ==
    [][(Invoked("update_susceptible") /\ state[cursor] # Susceptible)
       => /\ UNCHANGED <<state, virus, locations, infection_log, events,
                         neighbors, par>>
          /\ draws' = <<>>]_vars

\* update_susceptible has just returned from an agent that is Infected and
\* consumed no draw
C13_Witness ==
    /\ handler = "update_susceptible"
    /\ cursor > 0
    /\ state[Acted] = Infected
    /\ virus[Acted] = MRSA
    /\ draws = <<>>

\* C14: every invocation of update_infected sets the agent's location to
\* Community when its first draw is below 0.5 and to Home otherwise, never to
\* Hospital, whatever the roulette then does; every invocation of
\* update_susceptible on a Susceptible agent sets it to floor(3u) for its
\* first draw u, infection or not.
C14_LocationReassignedEveryTime ==
    [][/\ Invoked("update_infected") =>
             /\ Len(draws') = 2
             /\ locations'[cursor] =
                   IF draws'[1] < HalfChance THEN Community ELSE Home
             /\ locations'[cursor] # Hospital
       /\ (Invoked("update_susceptible") /\ state[cursor] = Susceptible) =>
             /\ Len(draws') >= 1
             /\ locations'[cursor] = (draws'[1] * 3) \div Scale
             /\ locations'[cursor] \in Locations]_vars

\* an Infected agent was moved to Home by the invocation that also
\* hospitalized it
C14_Witness ==
    /\ handler = "update_infected"
    /\ cursor > 0
    /\ draws[1] >= HalfChance
    /\ locations[Acted] = Home
    /\ Settled.state[Acted] = Infected_Hospitalized

\* C15: update_infected_hospitalized sets the location to Hospital and draws
\* once; if "Prob recovery" exceeds that draw the agent recovers and that is
\* the only draw; otherwise a second draw is made and the agent becomes
\* Infected, pathogen attached, iff "Discharge infected" exceeds it, else it
\* stays Infected-Hospitalized.
C15_RecoveryShortCircuitsDischarge ==
    [][Invoked("update_infected_hospitalized") =>
          /\ locations'[cursor] = Hospital
          /\ IF par.rec > draws'[1]
             THEN /\ Len(draws') = 1
                  /\ Settled'.state[cursor] = Susceptible
                  /\ Settled'.virus[cursor] = NoVirus
             ELSE /\ Len(draws') = 2
                  /\ Settled'.virus[cursor] = MRSA
                  /\ Settled'.state[cursor] =
                        IF par.dis > draws'[2] THEN Infected
                        ELSE Infected_Hospitalized]_vars

\* a hospitalized agent recovered on its first draw although "Discharge
\* infected" is 1.0: no second draw was made and it was not discharged
C15_Witness ==
    /\ handler = "update_infected_hospitalized"
    /\ cursor > 0
    /\ par.dis = Scale
    /\ par.rec > draws[1]
    /\ Len(draws) = 1
    /\ Settled.state[Acted] = Susceptible

\* C16: an agent hospitalized by update_infected keeps its pathogen and the
\* Community or Home location of that invocation; nothing moves an agent
\* that is (or is about to be) Infected-Hospitalized but its own handler;
\* update_infected_hospitalized puts it at Hospital, and from then on it is
\* at Hospital in every state in which it is still Infected-Hospitalized.
C16_HospitalFromNextStep ==
    [][/\ (Invoked("update_infected")
           /\ Settled'.state[cursor] = Infected_Hospitalized) =>
             /\ Settled'.virus[cursor] = MRSA
             /\ locations'[cursor] \in {Community, Home}
       /\ \A a \in Agents :
             (Settled.state[a] = Infected_Hospitalized
              /\ locations'[a] # locations[a]) =>
                 /\ Invoked("update_infected_hospitalized")
                 /\ a = cursor
       /\ Invoked("update_infected_hospitalized") => locations'[cursor] = Hospital
       /\ \A a \in Agents :
             (state[a] = Infected_Hospitalized /\ locations[a] = Hospital
              /\ state'[a] = Infected_Hospitalized) =>
                 locations'[a] = Hospital]_vars

\* an agent seeded Infected (it was never infected during the run) was
\* hospitalized in the first step and its handler has put it at Hospital in
\* the second, where it still is Infected-Hospitalized
C16_Witness ==
    /\ today = 1
    /\ handler = "update_infected_hospitalized"
    /\ cursor > 0
    /\ Settled.state[Acted] = Infected_Hospitalized
    /\ locations[Acted] = Hospital
    /\ \A i \in 1 .. Len(infection_log) : infection_log[i][1] # Acted

\* C17: a handler invoked on agent a changes a's location entry, state and
\* pathogen only (and, in update_susceptible, the log): every other agent's
\* location, state and pathogen stay as they are, a transition it queues is
\* a transition of a, the neighbor lists and the parameters stay as they
\* are; the end of a step changes no location.
C17_HandlerFrame ==
    [][/\ cursor' = cursor + 1 =>
             /\ \A b \in Agents \ {cursor} :
                   /\ locations'[b] = locations[b]
                   /\ state'[b] = state[b]
                   /\ virus'[b] = virus[b]
             /\ \/ events' = events
                \/ /\ IsPrefix(events, events')
                   /\ Len(events') = Len(events) + 1
                   /\ events'[Len(events')].agent = cursor
             /\ handler' # "update_susceptible" => infection_log' = infection_log
       /\ cursor' # cursor + 1 => locations' = locations
       /\ neighbors' = neighbors
       /\ par' = par]_vars

\* update_infected has moved its agent and made it recover while another
\* agent, handled earlier in a different location, is still Infected
C17_Witness ==
    /\ handler = "update_infected"
    /\ cursor > 1
    /\ Settled.state[Acted] = Susceptible
    /\ \E b \in Agents :
          /\ b < Acted
          /\ state[b] = Infected
          /\ virus[b] = MRSA
          /\ locations[b] # locations[Acted]

\* C18: the log grows only by one entry <<s, i, loc>> appended by
\* update_susceptible on s, and at that moment i is a neighbor of s, i is in
\* state Infected (not Infected-Hospitalized, not Susceptible) and carries a
\* pathogen, loc is the location just assigned to s, and the location stored
\* for i is loc.
C18_LogEntryFacts ==
    [][infection_log' # infection_log =>
          /\ Invoked("update_susceptible")
          /\ Len(infection_log') = Len(infection_log) + 1
          /\ LET e == LastEntry(infection_log') IN
                /\ e[1] = cursor
                /\ \E n \in 1 .. Len(neighbors[cursor]) : neighbors[cursor][n] = e[2]
                /\ state[e[2]] = Infected
                /\ state'[e[2]] = Infected
                /\ virus'[e[2]] = MRSA
                /\ e[3] = locations'[cursor]
                /\ locations'[e[2]] = e[3]]_vars

\* an agent with two neighbors in its location, the first Infected-
\* Hospitalized (hospitalized at once, its own handler not yet run) and the
\* second Infected, has just been infected and the log credits the second
C18_Witness ==
    /\ handler = "update_susceptible"
    /\ cursor > 0
    /\ Len(neighbors[Acted]) = 2
    /\ infection_log # <<>>
    /\ LastEntry(infection_log)[1] = Acted
    /\ LastEntry(infection_log)[2] = neighbors[Acted][2]
    /\ state[neighbors[Acted][1]] = Infected_Hospitalized
    /\ locations[neighbors[Acted][1]] = locations[Acted]
    /\ state[neighbors[Acted][2]] = Infected

\* C19: with the parameters of the driver ("Prob recovery" = 0) no agent
\* becomes Susceptible: an agent that is Infected or Infected-Hospitalized is
\* so in the next state, and no agent id occurs twice as susceptible_id in
\* the infection log.
C19_NoRecoveryUnderDriver ==
    [][par = DriverParams =>
          /\ \A a \in Agents :
                /\ state[a] # Susceptible => state'[a] # Susceptible
                /\ Settled.state[a] # Susceptible => Settled'.state[a] # Susceptible
          /\ \A i, j \in 1 .. Len(infection_log') :
                i # j => infection_log'[i][1] # infection_log'[j][1]]_vars

\* under the driver's parameters two agents have been infected, and one of
\* them, infected straight into hospital, has been discharged to Infected by
\* its handler in the following step
C19_Witness ==
    /\ par = DriverParams
    /\ today = 1
    /\ Len(infection_log) = 2
    /\ handler = "update_infected_hospitalized"
    /\ cursor > 0
    /\ Settled.state[Acted] = Infected
    /\ \E i \in 1 .. Len(infection_log) : infection_log[i][1] = Acted

\* C20: update_susceptible invoked while no agent is in state Infected (some
\* may be Infected-Hospitalized) infects nobody: the log is left as it is
\* and the agent stays Susceptible.  And a state in which every agent is
\* Susceptible is absorbing: nothing is queued, the next state has every
\* agent Susceptible again and the same log, whatever the parameters and
\* the draws.
C20_DiseaseFreeAbsorbing ==
    [][/\ (Invoked("update_susceptible")
           /\ \A b \in Agents : state[b] # Infected) =>
             /\ infection_log' = infection_log
             /\ state'[cursor] = Susceptible
             /\ Settled'.state[cursor] = Susceptible
             /\ Len(draws') = 1
       /\ (\A a \in Agents : state[a] = Susceptible) =>
             /\ events = <<>>
             /\ \A a \in Agents : state'[a] = Susceptible /\ virus'[a] = NoVirus
             /\ events' = <<>>
             /\ infection_log' = infection_log]_vars

\* the disease has spread and died out: every agent is Susceptible again,
\* the log is not empty, and update_susceptible has just run on an agent
\* with two neighbors, consuming the location draw only
C20_Witness ==
    /\ \A a \in Agents : state[a] = Susceptible /\ virus[a] = NoVirus
    /\ infection_log # <<>>
    /\ handler = "update_susceptible"
    /\ cursor > 0
    /\ Len(neighbors[Acted]) = 2
    /\ Len(draws) = 1

====
